---- MODULE Spec2Model ----
(***************************************************************************)
(* StegoClient (src/stego_client.py): a covert channel that carries a      *)
(* message header in the TCP initial sequence number and one message bit   *)
(* in the least-significant bit of the sequence number of each data packet.*)
(* One behaviour is one call of send_stego_msg on a fresh StegoClient.     *)
(***************************************************************************)
EXTENDS Integers, Sequences, FiniteSets, TLC

VARIABLES
    MAGIC_SEQ,       \* session_info.MAGIC_SEQ, the protocol's magic byte
    msg,             \* the message given to send_stego_msg
    _clt,            \* self._clt
    _srv,            \* self._srv
    _curr_port,      \* self._curr_port
    _seq,            \* self._seq
    _ack,            \* self._ack
    _client_socket,  \* self._client_socket: "none", "bound", "closed"
    pc,              \* where send_stego_msg stands
    i,               \* index of the bit loop
    inpkt,           \* the packet sniff() handed to its filter last
    response,        \* the packet sniff() returned, NoPkt for none (both are
                     \* kept until _receive_init_syn_ack returns True)
    wire,            \* the packet sent last
    nSyn,            \* packets sent so far, by kind
    nAck,
    nData,
    unanswered,      \* a matching SYN-ACK arrived while nothing was sniffing
                     \* (kept until _receive_init_syn_ack returns True)
    err,             \* how the operation failed, "none" if it did not
    init_seq,        \* init_seq of send_stego_msg, line 104
    th               \* the locals of the invocations that run concurrently on
                     \* one StegoClient, by thread

vars == <<MAGIC_SEQ, msg, _clt, _srv, _curr_port, _seq, _ack, _client_socket,
          pc, i, inpkt, response, wire, nSyn, nAck, nData, unanswered, err,
          init_seq, th>>

(***************************************************************************)
(* Python integer operators on non-negative integers.                      *)
(***************************************************************************)
RECURSIVE BitOr(_, _)
BitOr(a, b) ==
    IF a = 0 THEN b
    ELSE IF b = 0 THEN a
    ELSE 2 * BitOr(a \div 2, b \div 2) + (IF (a % 2) + (b % 2) > 0 THEN 1 ELSE 0)

RECURSIVE BitXor(_, _)
BitXor(a, b) ==
    IF a = 0 THEN b
    ELSE IF b = 0 THEN a
    ELSE 2 * BitXor(a \div 2, b \div 2) + (((a % 2) + (b % 2)) % 2)

ShiftLeft(a, n) == a * (2 ^ n)

(***************************************************************************)
(* The sequence numbers are Python integers that pass 2^31, more than the  *)
(* model checker's integers hold: such an integer x is kept as its two     *)
(* limbs, [hi |-> x \div 2^16, lo |-> x % 2^16], and hi is not limited.     *)
(***************************************************************************)
LIMB == 2 ^ 16

Limbs(hi_, lo_) == [hi |-> hi_, lo |-> lo_]

\* the limbs of a small x
ToLimbs(x) == Limbs(x \div LIMB, x % LIMB)

\* x + k, for 0 <= k < 2^30
Plus(x, k) == Limbs(x.hi + ((x.lo + k) \div LIMB), (x.lo + k) % LIMB)

\* x | k, for 0 <= k < 2^16
Or(x, k) == Limbs(x.hi, BitOr(x.lo, k))

\* x & ~1 : ~1 is -2 in Python, so every bit of x but the lowest is kept.
AndNotOne(x) == Limbs(x.hi, x.lo - (x.lo % 2))

\* a << n as limbs, for a small a and n <= 16
ShiftLeftInt(a, n) ==
    Limbs(a \div (2 ^ (16 - n)), (a % (2 ^ (16 - n))) * (2 ^ n))

\* x % 2 and x >> 1
Lsb(x) == x.lo % 2

HighBits(x) == Limbs(x.hi, x.lo \div 2)

\* 0 <= x <= 2^32 - 1: x fits a 32-bit field of a TCP header
FitsUint32(x) == x.hi >= 0 /\ x.hi < LIMB

(***************************************************************************)
(* Constants of the program.                                               *)
(***************************************************************************)
MAX_MSG_SIZE == 65535

\* session_info (not among the sources): sizes of the header fields.
BYTE_LEN_IN_BITS == 8

MAGIC_LEN_BYTE == 1

MSG_LEN_BYTE == 2

CRC_LEN_BYTE == 1

\* session_info.Port.HTTP.value and session_info.TcpFlag.*.value
PortHTTP == 80

FlagSYN == 2

FlagPSH == 8

FlagACK == 16

\* What a 32-bit field of a TCP header can hold at most.
UINT32_MAX == Limbs(LIMB - 1, LIMB - 1)

\* Python's None, where a port, a sequence number or an address is due.
None == 0 - 1

NoneInt == Limbs(None, None)

NoAddr == "none"

(***************************************************************************)
(* Bounds of the model.                                                    *)
(***************************************************************************)
\* Longest message, in characters, among the short messages.
MaxChars == 2

\* Characters of the short messages: 'h', 'i', U+00E9, U+20AC, whose UTF-8
\* encodings take 1, 1, 2 and 3 bytes.
Chars == {104, 105, 233, 8364}

\* Values of the protocol's magic byte the model is run with.
Magics == {0, 255}

CltAddrs == {"10.0.0.1"}

SrvAddrs == {"10.0.0.2"}

OtherAddr == "10.0.0.3"

\* Sequence numbers a peer may advertise in its SYN-ACK.
PeerSeqs == {ToLimbs(0), Limbs(40000, 7), UINT32_MAX}

(***************************************************************************)
(* Messages.  A message is a string, given as a sequence of runs           *)
(* [cp |-> code point, n |-> repetitions] so that a message of several     *)
(* thousand characters stays a small value.                                *)
(***************************************************************************)
Run(c, k) == [cp |-> c, n |-> k]

RECURSIVE SeqsUpTo(_, _)
SeqsUpTo(S, k) ==
    IF k = 0 THEN {<< >>}
    ELSE LET shorter == SeqsUpTo(S, k - 1)
         IN  shorter \cup {Append(s, x) : s \in {t \in shorter : Len(t) = k - 1}, x \in S}

ShortMsgs == SeqsUpTo({Run(c, 1) : c \in Chars}, MaxChars)

\* Messages around the length limit: 8191 and 8192 one-byte characters, and
\* 4096 two-byte characters (8192 bytes).
LimitBytes == (MAX_MSG_SIZE + 1) \div BYTE_LEN_IN_BITS

LongMsgs ==
    { <<Run(97, LimitBytes - 1)>>,
      <<Run(97, LimitBytes)>>,
      <<Run(233, LimitBytes \div 2)>> }

Msgs == ShortMsgs \cup LongMsgs

\* str.encode("utf-8") of one character.
utf8(cp) ==
    IF cp < 128 THEN <<cp>>
    ELSE IF cp < 2048 THEN <<192 + (cp \div 64), 128 + (cp % 64)>>
    ELSE IF cp < 65536 THEN
        <<224 + (cp \div 4096), 128 + ((cp \div 64) % 64), 128 + (cp % 64)>>
    ELSE <<240 + (cp \div 262144), 128 + ((cp \div 4096) % 64),
           128 + ((cp \div 64) % 64), 128 + (cp % 64)>>

\* len(msg.encode("utf-8"))
RECURSIVE encode_len(_)
encode_len(m) ==
    IF m = << >> THEN 0
    ELSE Head(m).n * Len(utf8(Head(m).cp)) + encode_len(Tail(m))

\* msg.encode("utf-8")[k], k counted from 0
RECURSIVE encode_at(_, _)
encode_at(m, k) ==
    LET u == utf8(Head(m).cp)
        w == Head(m).n * Len(u)
    IN  IF k < w THEN u[(k % Len(u)) + 1] ELSE encode_at(Tail(m), k - w)

\* bits_seq[j], j counted from 0: bitarray.frombytes lays every byte out
\* most-significant bit first.
bits_seq(m, j) ==
    (encode_at(m, j \div BYTE_LEN_IN_BITS)
        \div (2 ^ (BYTE_LEN_IN_BITS - 1 - (j % BYTE_LEN_IN_BITS)))) % 2

\* len(bits_seq)
bits_len(m) == encode_len(m) * BYTE_LEN_IN_BITS

(***************************************************************************)
(* The header.                                                             *)
(***************************************************************************)
\* int.to_bytes(n, "big")
RECURSIVE to_bytes(_, _)
to_bytes(x, n) ==
    IF n = 0 THEN << >> ELSE Append(to_bytes(x \div 256, n - 1), x % 256)

\* session_info.CRC8_FUNC: CRC-8, polynomial x^8 + x^2 + x + 1, initial
\* value 0, no reflection, no final xor.
\* one shift of the register c
crc8_step ==
    [c \in 0..255 |-> IF c >= 128 THEN BitXor((2 * c) % 256, 7) ELSE (2 * c) % 256]

RECURSIVE crc8_shift(_, _)
crc8_shift(c, k) == IF k = 0 THEN c ELSE crc8_shift(crc8_step[c], k - 1)

RECURSIVE CRC8_FUNC(_)
CRC8_FUNC(bytes) ==
    IF bytes = << >> THEN 0
    ELSE [c \in 0..255 |->
             crc8_shift(BitXor(c, bytes[Len(bytes)]), BYTE_LEN_IN_BITS)]
         [CRC8_FUNC(SubSeq(bytes, 1, Len(bytes) - 1))]

\* a limit of 1 << 16, without the - 1
msg_too_long_off_by_one(msg_len_in_bits) == msg_len_in_bits > MAX_MSG_SIZE + 1

\* line 31
msg_too_long(msg_len_in_bits) == msg_len_in_bits > MAX_MSG_SIZE

\* line 43 with the checksum taken over the bytes in little-endian order
crc_int_little(base_seq) ==
    LET b == to_bytes(base_seq, MSG_LEN_BYTE + MAGIC_LEN_BYTE)
    IN  CRC8_FUNC([k \in 1..Len(b) |-> b[Len(b) + 1 - k]])

\* line 43
crc_int(base_seq) == CRC8_FUNC(to_bytes(base_seq, MSG_LEN_BYTE + MAGIC_LEN_BYTE))

\* StegoClient._build_init_seq
_build_init_seq(m) ==
    LET msg_len_in_bits == encode_len(m) * BYTE_LEN_IN_BITS
        magic_masked == ShiftLeft(MAGIC_SEQ, MSG_LEN_BYTE * BYTE_LEN_IN_BITS)
        full_seq[base_seq \in Nat] ==
            Or(ShiftLeftInt(base_seq, CRC_LEN_BYTE * BYTE_LEN_IN_BITS),
               crc_int(base_seq))
    IN  IF msg_too_long(msg_len_in_bits) THEN NoneInt
        ELSE full_seq[BitOr(magic_masked, msg_len_in_bits)]

(***************************************************************************)
(* Packets.  An outbound packet is IP(src, dst) / TCP(sport, dport, seq,   *)
(* ack, flags); an inbound packet may lack the IP or the TCP layer, and a  *)
(* missing layer's fields are None.                                        *)
(***************************************************************************)
Packet(hasIP, hasTCP, s, d, sp, dp, sq, ak, fl) ==
    [ip |-> hasIP, tcp |-> hasTCP, src |-> s, dst |-> d, sport |-> sp,
     dport |-> dp, seq |-> sq, ack |-> ak, flags |-> fl]

NoPkt == Packet(FALSE, FALSE, NoAddr, NoAddr, None, None, NoneInt, NoneInt, None)

\* IP(src, dst) / TCP(sport, dport, seq, ack, flags); scapy's TCP has ack 0
\* when none is given.
IPTCP(s, d, sp, dp, sq, ak, fl) == Packet(TRUE, TRUE, s, d, sp, dp, sq, ak, fl)

\* scapy builds the packet when it sends it, and a sequence or
\* acknowledgment number that does not fit the 32-bit field cannot be
\* packed: the call raises instead of sending.
Sendable(p) == FitsUint32(p.seq) /\ FitsUint32(p.ack)

(***************************************************************************)
(* The network as the client sees it.                                      *)
(***************************************************************************)
SYNACK == BitOr(FlagSYN, FlagACK)

PSHACK == BitOr(FlagPSH, FlagACK)

\* The SYN-ACK a cooperating peer answers the SYN with.
Ideal(sq) == IPTCP(_srv, _clt, PortHTTP, _curr_port, sq, Plus(_seq, 1), SYNACK)

\* Ideal with one field changed, for every field the filter reads.
Deviants ==
    LET p == Ideal(ToLimbs(0))
    IN  { [p EXCEPT !.src = OtherAddr],
          [p EXCEPT !.dst = OtherAddr],
          [p EXCEPT !.sport = PortHTTP + 1],
          [p EXCEPT !.dport = _curr_port + 1],
          [p EXCEPT !.ack = _seq],
          [p EXCEPT !.ack = Plus(_seq, 2)],
          [p EXCEPT !.flags = FlagSYN],
          [p EXCEPT !.flags = FlagACK],
          [p EXCEPT !.flags = BitOr(SYNACK, FlagPSH)],
          \* an IP packet that is not TCP
          Packet(TRUE, FALSE, _srv, _clt, None, None, NoneInt, NoneInt, None),
          \* a TCP segment that is not carried by IP (version 4)
          Packet(FALSE, TRUE, NoAddr, NoAddr, PortHTTP, _curr_port, ToLimbs(0),
                 Plus(_seq, 1), SYNACK),
          \* every field wrong
          IPTCP(OtherAddr, OtherAddr, PortHTTP + 1, _curr_port + 1, ToLimbs(0), _seq,
                FlagSYN) }

Inbound == {Ideal(sq) : sq \in PeerSeqs} \cup Deviants

\* random.randrange(a, b)
randrange(a, b) == a .. (b - 1)

\* The ports the model draws, among those randrange may return.
PortSamples == {49151, 49152, 65534, 65535}

(***************************************************************************)
(* StegoClient._receive_init_syn_ack.is_synack_reply                       *)
(***************************************************************************)
\* the filter without its test of the destination port
is_synack_reply_any_port(packet) ==
    /\ packet.tcp
    /\ packet.ip
    /\ packet.src = _srv
    /\ packet.dst = _clt
    /\ packet.sport = PortHTTP
    /\ packet.flags = BitOr(FlagSYN, FlagACK)
    /\ packet.ack = Plus(_seq, 1)

is_synack_reply(packet) ==
    /\ packet.tcp
    /\ packet.ip
    /\ packet.src = _srv
    /\ packet.dst = _clt
    /\ packet.sport = PortHTTP
    /\ packet.dport = _curr_port
    /\ packet.flags = BitOr(FlagSYN, FlagACK)
    /\ packet.ack = Plus(_seq, 1)

(***************************************************************************)
(* Concurrent invocations of send_stego_msg on one StegoClient: what each  *)
(* was called with, where it stands and its local variables.               *)
(***************************************************************************)
Threads == {1, 2}

Idle ==
    [pc |-> "idle", msg |-> << >>, clt_ip |-> NoAddr, srv_ip |-> NoAddr,
     port |-> None, i |-> 0, pkt |-> NoPkt, sent |-> NoPkt]

(***************************************************************************)
(* The state after StegoClient().                                          *)
(***************************************************************************)
Init ==
    /\ MAGIC_SEQ \in Magics
    /\ msg = << >>
    /\ _clt = NoAddr
    /\ _srv = NoAddr
    /\ _curr_port = None
    /\ _seq = NoneInt
    /\ _ack = NoneInt
    /\ _client_socket = "none"
    /\ pc = "idle"
    /\ i = 0
    /\ inpkt = NoPkt
    /\ response = NoPkt
    /\ wire = NoPkt
    /\ nSyn = 0
    /\ nAck = 0
    /\ nData = 0
    /\ unanswered = FALSE
    /\ err = "none"
    /\ init_seq = NoneInt
    /\ th = [t \in Threads |-> Idle]

(***************************************************************************)
(* send_stego_msg, lines 88-101: the call, the socket and its bind.        *)
(***************************************************************************)
Enter(m, c, s, port) ==
    /\ pc = "idle"
    /\ msg' = m
    /\ _clt' = c
    /\ _srv' = s
    /\ _curr_port' = port

BindOk(m, c, s, port) ==
    /\ Enter(m, c, s, port)
    /\ _client_socket' = "bound"
    /\ pc' = "bound"
    /\ UNCHANGED <<th, init_seq, MAGIC_SEQ, _seq, _ack, i, inpkt, response, wire, nSyn, nAck,
                   nData, unanswered, err>>

\* the except branch without its return
BindFail_no_return(m, c, s, port) ==
    /\ Enter(m, c, s, port)
    /\ _client_socket' = "closed"
    /\ err' = "BindFailure"
    /\ pc' = "bound"
    /\ UNCHANGED <<th, init_seq, MAGIC_SEQ, _seq, _ack, i, inpkt, response, wire, nSyn, nAck,
                   nData, unanswered>>

BindFail(m, c, s, port) ==
    /\ Enter(m, c, s, port)
    /\ _client_socket' = "closed"
    /\ err' = "BindFailure"
    /\ pc' = "done"
    /\ UNCHANGED <<th, init_seq, MAGIC_SEQ, _seq, _ack, i, inpkt, response, wire, nSyn, nAck,
                   nData, unanswered>>

(***************************************************************************)
(* send_stego_msg, lines 104-107: the message is too long.                 *)
(***************************************************************************)
RejectTooLarge ==
    /\ pc = "bound"
    /\ _build_init_seq(msg) = NoneInt
    /\ init_seq' = _build_init_seq(msg)
    /\ _client_socket' = "closed"
    /\ err' = "MessageTooLarge"
    /\ pc' = "done"
    /\ UNCHANGED <<th, MAGIC_SEQ, msg, _clt, _srv, _curr_port, _seq, _ack, i,
                   inpkt, response, wire, nSyn, nAck, nData, unanswered>>

(***************************************************************************)
(* send_stego_msg, lines 104-112: the SYN.                                 *)
(***************************************************************************)
SendSyn ==
    /\ pc = "bound"
    /\ _build_init_seq(msg) # NoneInt
    /\ init_seq' = _build_init_seq(msg)
    /\ _seq' = init_seq'
    /\ LET init_pkt == IPTCP(_clt, _srv, _curr_port, PortHTTP, _seq', ToLimbs(0), FlagSYN)
       IN  IF Sendable(init_pkt)
           THEN /\ wire' = init_pkt
                /\ nSyn' = nSyn + 1
                /\ pc' = "syn_sent"
           ELSE /\ pc' = "raised"
                /\ UNCHANGED <<wire, nSyn>>
    /\ UNCHANGED <<th, MAGIC_SEQ, msg, _clt, _srv, _curr_port, _ack,
                   _client_socket, i, inpkt, response, nAck, nData, unanswered,
                   err>>

(***************************************************************************)
(* Between send() of the SYN and sniff(): a packet that arrives now is     *)
(* seen by nobody.                                                         *)
(***************************************************************************)
ArriveUnobserved(p) ==
    /\ pc = "syn_sent"
    /\ is_synack_reply(p)
    /\ unanswered' = TRUE
    /\ UNCHANGED <<th, init_seq, MAGIC_SEQ, msg, _clt, _srv, _curr_port, _seq, _ack,
                   _client_socket, pc, i, inpkt, response, wire, nSyn, nAck,
                   nData, err>>

(***************************************************************************)
(* _receive_init_syn_ack, line 71: sniff(lfilter, count=1, timeout).       *)
(***************************************************************************)
SniffStart ==
    /\ pc = "syn_sent"
    /\ pc' = "sniff"
    /\ UNCHANGED <<th, init_seq, MAGIC_SEQ, msg, _clt, _srv, _curr_port, _seq, _ack,
                   _client_socket, i, inpkt, response, wire, nSyn, nAck, nData,
                   unanswered, err>>

SniffPacket(p) ==
    /\ pc = "sniff"
    /\ inpkt' = p
    /\ IF is_synack_reply(p)
       THEN response' = p /\ pc' = "got_synack"
       ELSE UNCHANGED <<response, pc>>
    /\ UNCHANGED <<th, init_seq, MAGIC_SEQ, msg, _clt, _srv, _curr_port, _seq, _ack,
                   _client_socket, i, wire, nSyn, nAck, nData, unanswered, err>>

\* sniff() called without its timeout: it waits until a packet matches
SniffTimeout_blocks ==
    /\ pc = "sniff"
    /\ pc' = "sniff"
    /\ UNCHANGED <<th, init_seq, MAGIC_SEQ, msg, _clt, _srv, _curr_port, _seq,
                   _ack, _client_socket, i, inpkt, response, wire, nSyn, nAck,
                   nData, unanswered, err>>

\* a timeout that sends the SYN again
SniffTimeout_resend ==
    /\ pc = "sniff"
    /\ err' = "HandshakeTimeout"
    /\ pc' = "bound"
    /\ UNCHANGED <<th, init_seq, MAGIC_SEQ, msg, _clt, _srv, _curr_port, _seq, _ack,
                   _client_socket, i, inpkt, response, wire, nSyn, nAck, nData,
                   unanswered>>

\* lines 83-85: nothing matched within the timeout
SniffTimeout ==
    /\ pc = "sniff"
    /\ err' = "HandshakeTimeout"
    /\ pc' = "close"
    /\ UNCHANGED <<th, init_seq, MAGIC_SEQ, msg, _clt, _srv, _curr_port, _seq, _ack,
                   _client_socket, i, inpkt, response, wire, nSyn, nAck, nData,
                   unanswered>>

(***************************************************************************)
(* _receive_init_syn_ack, lines 73-81: the ACK.                            *)
(***************************************************************************)
\* an ACK that repeats the peer's sequence number
ack_pkt_echo(sq, pkt) ==
    IPTCP(_clt, _srv, _curr_port, PortHTTP, sq, pkt.seq, FlagACK)

\* lines 78-80
\* the ACK with its two ports exchanged
ack_pkt_swapped_ports(sq, pkt) ==
    IPTCP(_clt, _srv, PortHTTP, _curr_port, sq, Plus(pkt.seq, 1), FlagACK)

ack_pkt(sq, pkt) ==
    IPTCP(_clt, _srv, _curr_port, PortHTTP, sq, Plus(pkt.seq, 1), FlagACK)

SendAck ==
    /\ pc = "got_synack"
    /\ _seq' = Plus(_seq, 1)
    /\ LET p == ack_pkt(_seq', response)
       IN  IF Sendable(p)
           THEN /\ wire' = p
                /\ nAck' = nAck + 1
                /\ pc' = "ack_sent"
           ELSE /\ pc' = "raised"
                /\ UNCHANGED <<wire, nAck>>
    /\ UNCHANGED <<th, init_seq, MAGIC_SEQ, msg, _clt, _srv, _curr_port, _ack, _client_socket,
                   i, inpkt, response, nSyn, nData, unanswered, err>>

(***************************************************************************)
(* _receive_init_syn_ack, line 82, and send_stego_msg, lines 115-120: the  *)
(* handshake is done and the bit loop is entered.                          *)
(***************************************************************************)
HandshakeDone ==
    /\ pc = "ack_sent"
    /\ inpkt' = NoPkt
    /\ response' = NoPkt
    /\ unanswered' = FALSE
    /\ i' = 0
    /\ pc' = IF bits_len(msg) = 0 THEN "close" ELSE "transmit"
    /\ UNCHANGED <<th, init_seq, MAGIC_SEQ, msg, _clt, _srv, _curr_port, _seq, _ack,
                   _client_socket, wire, nSyn, nAck, nData, err>>

(***************************************************************************)
(* send_stego_msg, lines 120-131: one turn of the bit loop.                *)
(***************************************************************************)
\* the bit or-ed in, a 0 bit never clearing what is there
next_seq_or_only(sq, idx, bit) == Or(Plus(sq, idx * 2), bit)

\* the sequence number set to the offset of the index, not advanced by it
next_seq_assign(sq, idx, bit) ==
    LET advanced == ToLimbs(idx * 2)
    IN  IF bit = 1 THEN Or(advanced, bit) ELSE AndNotOne(advanced)

\* the sequence number advanced by 2 at every index, not by i * 2
next_seq_step_two(sq, idx, bit) ==
    LET advanced == Plus(sq, 2)
    IN  IF bit = 1 THEN Or(advanced, bit) ELSE AndNotOne(advanced)

\* lines 121-125
next_seq(sq, idx, bit) ==
    LET advanced == Plus(sq, idx * 2)
    IN  IF bit = 1 THEN Or(advanced, bit) ELSE AndNotOne(advanced)

SendBit ==
    /\ pc = "transmit"
    /\ _seq' = next_seq(_seq, i, bits_seq(msg, i))
    /\ LET init_pkt == IPTCP(_clt, _srv, _curr_port, PortHTTP, _seq', ToLimbs(0), PSHACK)
       IN  IF Sendable(init_pkt)
           THEN /\ wire' = init_pkt
                /\ nData' = nData + 1
                /\ i' = i + 1
                /\ pc' = IF i + 1 = bits_len(msg) THEN "close" ELSE "transmit"
           ELSE /\ pc' = "raised"
                /\ UNCHANGED <<wire, nData, i>>
    /\ UNCHANGED <<th, init_seq, MAGIC_SEQ, msg, _clt, _srv, _curr_port, _ack, _client_socket,
                   inpkt, response, nSyn, nAck, unanswered, err>>

(***************************************************************************)
(* send_stego_msg, lines 133-134.                                          *)
(***************************************************************************)
CloseSocket ==
    /\ pc = "close"
    /\ _client_socket' = "closed"
    /\ pc' = "done"
    /\ UNCHANGED <<th, init_seq, MAGIC_SEQ, msg, _clt, _srv, _curr_port, _seq, _ack, i, inpkt,
                   response, wire, nSyn, nAck, nData, unanswered, err>>

Next ==
    \/ \E m \in Msgs, c \in CltAddrs, s \in SrvAddrs,
          port \in PortSamples \cap randrange(49152, 65535) :
            BindOk(m, c, s, port) \/ BindFail(m, c, s, port)
    \/ RejectTooLarge
    \/ SendSyn
    \/ \E p \in Inbound : ArriveUnobserved(p)
    \/ SniffStart
    \/ \E p \in Inbound : SniffPacket(p)
    \/ SniffTimeout
    \/ SendAck
    \/ HandshakeDone
    \/ SendBit
    \/ CloseSocket

Spec == Init /\ [][Next]_vars

(***************************************************************************)
(* The steps of the client itself, apart from the packets that arrive.     *)
(* send_stego_msg runs on a thread that is never suspended for good, and   *)
(* sniff() is given timeout=3: whatever step the client is at is taken in  *)
(* the end.                                                                *)
(***************************************************************************)
ClientStep ==
    \/ RejectTooLarge
    \/ SendSyn
    \/ SniffStart
    \/ SniffTimeout
    \/ SendAck
    \/ HandshakeDone
    \/ SendBit
    \/ CloseSocket

\* Run with the magic byte 255 alone: under it the longest message ends
\* after 45 data packets, and the graph stays small enough for the search
\* of its cycles.
LiveInit == Init /\ MAGIC_SEQ = 255

LiveSpec == LiveInit /\ [][Next]_vars /\ WF_vars(ClientStep)

(***************************************************************************)
(* _build_init_seq alone, on a message of every length the check of line   *)
(* 31 lets through and on the shortest one it stops.                       *)
(***************************************************************************)
HeaderMsgs == {<< >>} \cup {<<Run(97, n)>> : n \in 1..LimitBytes}

HeaderInit ==
    /\ MAGIC_SEQ \in Magics
    /\ msg \in HeaderMsgs
    /\ pc = "header"
    /\ _clt = NoAddr /\ _srv = NoAddr /\ _curr_port = None
    /\ _seq = NoneInt /\ _ack = NoneInt /\ _client_socket = "none"
    /\ i = 0 /\ inpkt = NoPkt /\ response = NoPkt /\ wire = NoPkt
    /\ nSyn = 0 /\ nAck = 0 /\ nData = 0
    /\ unanswered = FALSE /\ err = "none"
    /\ init_seq = NoneInt
    /\ th = [t \in Threads |-> Idle]

\* line 104
BuildInitSeq ==
    /\ pc = "header"
    /\ init_seq' = _build_init_seq(msg)
    /\ pc' = "header_done"
    /\ UNCHANGED <<th, MAGIC_SEQ, msg, _clt, _srv, _curr_port, _seq, _ack,
                   _client_socket, i, inpkt, response, wire, nSyn, nAck, nData,
                   unanswered, err>>

HeaderNext == BuildInitSeq

HeaderSpec == HeaderInit /\ [][HeaderNext]_vars

(***************************************************************************)
(* Vocabulary of the properties.                                           *)
(***************************************************************************)
\* The operation is over: it returned, or an exception left it.
Returned == pc = "done"

Raised == pc = "raised"

Terminal == Returned \/ Raised

\* The header of the message in hand: the ISN.
H == _build_init_seq(msg)

\* The bit length a header declares: its bits [23:8].
DeclaredLen(h) == (h.hi % 256) * 256 + (h.lo \div 256)

\* The six conditions of a SYN-ACK that answers the SYN of this operation.
MatchesSyn(p) ==
    /\ p.ip /\ p.tcp
    /\ p.src = _srv /\ p.dst = _clt
    /\ p.sport = PortHTTP /\ p.dport = _curr_port
    /\ p.flags = FlagSYN + FlagACK
    /\ p.ack = Plus(H, 1)

NoneSent == nSyn = 0 /\ nAck = 0 /\ nData = 0

(***************************************************************************)
(* C1.  The packets of one send operation form a prefix of SYN, ACK, D_0,  *)
(* ..., D_(n-1), n the number of payload bits: the ACK follows a matching  *)
(* SYN-ACK, the data packets follow the ACK, and once the handshake has    *)
(* succeeded the operation ends with exactly n data packets sent.          *)
(* Every step sends at most one packet, so the counts by kind give the     *)
(* order.                                                                  *)
(***************************************************************************)
C1_PrefixShape ==
    /\ nSyn <= 1
    /\ nAck <= nSyn
    /\ nAck = 1 /\ pc = "ack_sent" => MatchesSyn(response)
    /\ nData > 0 => nAck = 1
    /\ nData <= bits_len(msg)
    /\ nData = i

C1_SendOrder ==
    /\ C1_PrefixShape
    /\ Terminal /\ nAck = 1 => nData = bits_len(msg)

(***************************************************************************)
(* C2.  The SYN carries sequence number H, the header of the message; the  *)
(* ACK carries sequence number H + 1, acknowledgment number (sequence      *)
(* number of the observed SYN-ACK) + 1, and flags exactly ACK.             *)
(***************************************************************************)
C2_SynAndAckNumbers ==
    /\ nSyn = 1 /\ nAck = 0 =>
          /\ wire.seq = H
          /\ wire.flags = FlagSYN
    /\ pc = "ack_sent" =>
          /\ wire.seq = Plus(H, 1)
          /\ wire.ack = Plus(response.seq, 1)
          /\ wire.flags = FlagACK

C2_Witness ==
    /\ pc = "ack_sent"
    /\ nAck = 1
    /\ response.seq = Limbs(40000, 7)
    /\ wire.ack = Limbs(40000, 8)

(***************************************************************************)
(* C3.  After a successful handshake the least-significant bits of the     *)
(* data packets' sequence numbers, in send order, are the bits of the      *)
(* UTF-8 encoded message, bytes in order and most-significant bit first,   *)
(* and the operation ends with as many data packets sent as the header     *)
(* sent as ISN declares bits.                                              *)
(***************************************************************************)
\* The UTF-8 bytes of the messages' characters, written out.
Utf8Bytes(cp) ==
    CASE cp = 97 -> <<97>>
      [] cp = 104 -> <<104>>
      [] cp = 105 -> <<105>>
      [] cp = 233 -> <<195, 169>>
      [] cp = 8364 -> <<226, 130, 172>>

RECURSIVE Repeat(_, _)
Repeat(u, k) == IF k = 0 THEN << >> ELSE u \o Repeat(u, k - 1)

RECURSIVE BytesOf(_)
BytesOf(m) ==
    IF m = << >> THEN << >>
    ELSE Repeat(Utf8Bytes(Head(m).cp), Head(m).n) \o BytesOf(Tail(m))

\* Bit k (0 the most significant) of a byte, by repeated halving.
RECURSIVE MsbFirst(_, _)
MsbFirst(byte, k) == IF k = 7 THEN byte % 2 ELSE MsbFirst(byte \div 2, k + 1)

\* The j-th bit (from 0) of a short message.
ExpectedBit(m, j) == MsbFirst(BytesOf(m)[(j \div 8) + 1], j % 8)

\* The j-th bit of a message of one repeated one-byte character.
ExpectedBitLong(m, j) == MsbFirst(Utf8Bytes(Head(m).cp)[1], j % 8)

C3_BitsInOrder ==
    /\ nData > 0 /\ msg \in ShortMsgs =>
          Lsb(wire.seq) = ExpectedBit(msg, nData - 1)
    /\ nData > 0 /\ msg \notin ShortMsgs =>
          Lsb(wire.seq) = ExpectedBitLong(msg, nData - 1)
    /\ Terminal /\ nAck = 1 => nData = DeclaredLen(H)

(***************************************************************************)
(* C4.  Every data packet, at bit index i and with S the session sequence  *)
(* number just before the bit is processed, carries an odd sequence number *)
(* for a 1 bit and an even one for a 0 bit, equal to S + i*2 in all bits   *)
(* but the least-significant one.                                          *)
(***************************************************************************)
C4_DataPacketStep ==
    nData' = nData + 1 =>
        /\ Lsb(wire'.seq) = bits_seq(msg, i)
        /\ HighBits(wire'.seq) = HighBits(Plus(_seq, i * 2))
        /\ wire'.flags = FlagPSH + FlagACK

C4_LsbEncoding == [][C4_DataPacketStep]_vars

\* the third data packet (i = 2) has gone out and carries a 1 bit
C4_Witness ==
    /\ nData = 3
    /\ bits_seq(msg, 2) = 1
    /\ Lsb(wire.seq) = 1

(***************************************************************************)
(* C5.  While the client waits, a packet is taken for the SYN-ACK exactly  *)
(* when source and destination address, source and destination port,       *)
(* flags (SYN+ACK, nothing else) and acknowledgment number (ISN + 1) all   *)
(* match; a packet wrong in any one of them is passed over, and when no    *)
(* packet has matched the handshake ends by timeout, with no ACK sent.     *)
(***************************************************************************)
C5_SynAckMatching ==
    \* a packet the filter has seen and that left the client waiting did not match
    /\ pc = "sniff" /\ inpkt # NoPkt => ~MatchesSyn(inpkt)
    \* the packet taken is the one seen last, and it matches
    /\ pc = "got_synack" => inpkt = response /\ MatchesSyn(response)
    \* one-field deviations of the matching packet are never taken
    /\ pc \in {"sniff", "got_synack"} => response \notin Deviants
    \* without a match the wait ends in the timeout
    /\ pc \in {"close", "done"} /\ nSyn = 1 /\ nAck = 0 =>
          /\ err = "HandshakeTimeout"
          /\ response = NoPkt

\* the wait timed out after a SYN-ACK whose acknowledgment number alone is wrong
C5_Witness ==
    /\ err = "HandshakeTimeout"
    /\ pc = "done"
    /\ inpkt = [Ideal(ToLimbs(0)) EXCEPT !.ack = H]

(***************************************************************************)
(* C6.  An error ends the send operation: after BindFailure or             *)
(* MessageTooLarge no packet has been or is sent, after HandshakeTimeout   *)
(* the one SYN and nothing else, and the operation only closes and returns.*)
(***************************************************************************)
C6_ErrorsAreTerminal ==
    /\ err \in {"BindFailure", "MessageTooLarge"} => NoneSent /\ pc = "done"
    /\ err = "HandshakeTimeout" =>
          /\ nSyn = 1 /\ nAck = 0 /\ nData = 0
          /\ pc \in {"close", "done"}

C6_Witness == err = "HandshakeTimeout" /\ pc = "done" /\ nSyn = 1

(***************************************************************************)
(* C7.  The length check rejects a message, with no packet sent, exactly   *)
(* when its UTF-8 encoding has more than 65535 bits: 8192 bytes are        *)
(* rejected, 8191 bytes are accepted and the SYN goes out.                 *)
(***************************************************************************)
\* the length check of send_stego_msg has been made
LengthChecked == pc \notin {"idle", "bound"} /\ err # "BindFailure"

C7_LengthBoundary ==
    /\ err = "MessageTooLarge" => NoneSent
    /\ LengthChecked =>
          /\ (err = "MessageTooLarge") <=> (encode_len(msg) * 8 > 65535)
          /\ encode_len(msg) = 8192 => err = "MessageTooLarge"
          /\ encode_len(msg) = 8191 => err # "MessageTooLarge" /\ nSyn = 1

C7_Witness == encode_len(msg) = 8191 /\ pc = "syn_sent" /\ nSyn = 1 /\ wire.flags = FlagSYN

(***************************************************************************)
(* C8.  MessageTooLarge is detected before any network activity: when the  *)
(* message is too long, no local endpoint has been created or bound at the *)
(* moment the length is checked, and the operation cannot end in           *)
(* BindFailure instead.                                                    *)
(***************************************************************************)
C8_TooLargeBeforeSocket ==
    /\ pc = "bound" /\ bits_len(msg) > MAX_MSG_SIZE => _client_socket = "none"
    /\ pc # "idle" /\ bits_len(msg) > MAX_MSG_SIZE => err # "BindFailure"

(***************************************************************************)
(* C9.  However a send operation ends, the socket it acquired is closed:   *)
(* no terminal state has the socket still open.                            *)
(***************************************************************************)
C9_SocketClosedAtEnd == Terminal => _client_socket = "closed"

\* what holds of the code: the socket is closed whenever the operation returns
C9_ClosedOnReturn == Returned => _client_socket = "closed"

(***************************************************************************)
(* C10.  One send operation sends at most one SYN and at most one ACK: no  *)
(* SYN after a timeout, and of several matching SYN-ACKs one is consumed   *)
(* and answered.                                                           *)
(***************************************************************************)
C10_OneSynOneAck ==
    /\ nSyn <= 1
    /\ nAck <= 1
    /\ err = "HandshakeTimeout" => nSyn = 1
    /\ nAck = 1 => pc \notin {"syn_sent", "sniff", "got_synack"}

\* two matching SYN-ACKs have arrived, one unobserved and one taken and answered
C10_Witness == pc = "ack_sent" /\ unanswered /\ nAck = 1 /\ nSyn = 1

(***************************************************************************)
(* C11.  For every payload bit length L the encoder lets through, the      *)
(* header H has the magic constant in bits [31:24], L in bits [23:8] and   *)
(* in bits [7:0] the checksum of exactly the three bytes magic, L's high   *)
(* byte, L's low byte: decoding H gives the magic and L back, and the      *)
(* checksum computed again from those two agrees with the one in H.        *)
(***************************************************************************)
\* the fields of a 32-bit header, decoded
MagicOf(h) == h.hi \div 256

ChecksumOf(h) == h.lo % 256

C11_HeaderLayout ==
    pc = "header_done" =>
        LET L == encode_len(msg) * 8
        IN  IF L > 65535 THEN init_seq = NoneInt
            ELSE /\ FitsUint32(init_seq)
                 /\ MagicOf(init_seq) = MAGIC_SEQ
                 /\ DeclaredLen(init_seq) = L
                 /\ ChecksumOf(init_seq) =
                       CRC8_FUNC(<<MagicOf(init_seq), DeclaredLen(init_seq) \div 256,
                                   DeclaredLen(init_seq) % 256>>)

\* the header of the longest message, under magic 255: 0xFF 0xFFF8 0x1A
C11_Witness ==
    /\ pc = "header_done"
    /\ MAGIC_SEQ = 255
    /\ encode_len(msg) = 8191
    /\ init_seq = Limbs(65535, 63514)

(***************************************************************************)
(* C12.  Every send operation terminates: the wait that follows the SYN    *)
(* ends, with a SYN-ACK taken or with the timeout, whatever arrives; the   *)
(* bit loop, once entered, runs to its end without waiting for the peer.   *)
(***************************************************************************)
C12_Terminates ==
    /\ (pc \in {"syn_sent", "sniff"}) ~> (pc = "got_synack" \/ err = "HandshakeTimeout")
    /\ (pc = "transmit") ~> Terminal
    /\ (pc # "idle") ~> Terminal

\* an operation that has sent all 16 bits of a two-byte message and returned
C12_Witness == Returned /\ nAck = 1 /\ bits_len(msg) = 16 /\ nData = 16

(***************************************************************************)
(* C13.  The session sequence number is a 32-bit unsigned value: at every  *)
(* moment of a send operation self._seq lies in 0 .. 2^32 - 1, and no      *)
(* packet is handed to send() with a seq or an ack outside that range.     *)
(***************************************************************************)
C13_SeqIs32Bit ==
    /\ _seq # NoneInt => FitsUint32(_seq)
    /\ ~Raised

(***************************************************************************)
(* C14.  A SYN-ACK that answers the SYN and is delivered after the SYN was *)
(* sent is never missed: no operation ends in HandshakeTimeout after such  *)
(* a SYN-ACK was delivered to the client.                                  *)
(***************************************************************************)
C14_NoMissedSynAck == ~(err = "HandshakeTimeout" /\ unanswered)

(***************************************************************************)
(* C15.  Within one send operation the session sequence number never       *)
(* decreases; in particular no data packet carries a sequence number lower *)
(* than the ACK's, which is the SYN's plus 1.                              *)
(***************************************************************************)
\* a < b, for two integers kept as limbs
Less(a, b) == a.hi < b.hi \/ (a.hi = b.hi /\ a.lo < b.lo)

C15_NeverDecreases ==
    /\ nData > 0 => ~Less(wire.seq, Plus(init_seq, 1))
    /\ (pc = "transmit" /\ nData > 0) => ~Less(_seq, Plus(init_seq, 1))

\* As amended: a step lowers the sequence number only when it sends the data
\* packet of bit index 0, that bit is 0 and the ACK's number is odd; the
\* number then falls by exactly 1, back to the SYN's.  Every other step
\* leaves it as it is or raises it, so it never falls below the SYN's.
C15_DecreasesOnlyAtFirstBit ==
    [][(_seq # NoneInt /\ _seq' # NoneInt)
          => \/ ~Less(_seq', _seq)
             \/ /\ pc = "transmit" /\ i = 0
                /\ bits_seq(msg, 0) = 0
                /\ Lsb(_seq) = 1
                /\ _seq = Plus(_seq', 1)
                /\ _seq' = init_seq]_vars

\* the first data packet went out with the SYN's number, one below the ACK's
C15_Witness ==
    /\ pc = "transmit" /\ nData = 1
    /\ wire.seq = init_seq
    /\ _seq = init_seq

(***************************************************************************)
(* Two invocations of send_stego_msg running at the same time on one       *)
(* StegoClient.  _clt, _srv, _curr_port, _seq and _client_socket are the   *)
(* fields of the one object; th[t] holds what invocation t owns: its       *)
(* arguments, its position, its loop index, the packet sniff() returned to *)
(* it and the last packet it sent.  th[t].port remembers the port that t   *)
(* drew at line 90.  A step is one statement's reads and writes of the     *)
(* fields; the threads interleave between steps.                           *)
(***************************************************************************)
\* The arguments of the two calls: the same client address, two servers, a
\* one-byte message for the first, an empty or an oversized one for the second.
ConcMsgs(t) ==
    IF t = 1 THEN {<<Run(104, 1)>>} ELSE {<< >>, <<Run(97, LimitBytes)>>}

ConcSrv(t) == IF t = 1 THEN "10.0.0.2" ELSE OtherAddr

ConcPorts == {49152, 65534} \cap randrange(49152, 65535)

ConcFrame == <<MAGIC_SEQ, msg, _ack, pc, i, inpkt, response, wire, nSyn, nAck,
               nData, unanswered, err, init_seq>>

\* lines 88-90
T_Enter(t, m, port) ==
    /\ th[t].pc = "idle"
    /\ _clt' = "10.0.0.1"
    /\ _srv' = ConcSrv(t)
    /\ _curr_port' = port
    /\ th' = [th EXCEPT ![t] = [@ EXCEPT !.pc = "entered", !.msg = m,
                                         !.clt_ip = "10.0.0.1",
                                         !.srv_ip = ConcSrv(t), !.port = port]]
    /\ UNCHANGED <<_seq, _client_socket>>
    /\ UNCHANGED ConcFrame

\* lines 93-97
T_BindOk(t) ==
    /\ th[t].pc = "entered"
    /\ _client_socket' = "bound"
    /\ th' = [th EXCEPT ![t].pc = "bound"]
    /\ UNCHANGED <<_clt, _srv, _curr_port, _seq>>
    /\ UNCHANGED ConcFrame

\* lines 98-101
T_BindFail(t) ==
    /\ th[t].pc = "entered"
    /\ _client_socket' = "closed"
    /\ th' = [th EXCEPT ![t].pc = "done"]
    /\ UNCHANGED <<_clt, _srv, _curr_port, _seq>>
    /\ UNCHANGED ConcFrame

\* lines 104-107
T_RejectTooLarge(t) ==
    /\ th[t].pc = "bound"
    /\ _build_init_seq(th[t].msg) = NoneInt
    /\ _client_socket' = "closed"
    /\ th' = [th EXCEPT ![t].pc = "done"]
    /\ UNCHANGED <<_clt, _srv, _curr_port, _seq>>
    /\ UNCHANGED ConcFrame

\* lines 104-112
T_SendSyn(t) ==
    /\ th[t].pc = "bound"
    /\ _build_init_seq(th[t].msg) # NoneInt
    /\ _seq' = _build_init_seq(th[t].msg)
    /\ LET init_pkt == IPTCP(_clt, _srv, _curr_port, PortHTTP, _seq', ToLimbs(0), FlagSYN)
       IN  th' = [th EXCEPT ![t] = [@ EXCEPT !.pc = "sniff", !.sent = init_pkt]]
    /\ UNCHANGED <<_clt, _srv, _curr_port, _client_socket>>
    /\ UNCHANGED ConcFrame

\* The SYN-ACKs the two servers answer the SYNs of such calls with.
ConcAccepted == {x \in ConcMsgs(1) \cup ConcMsgs(2) : _build_init_seq(x) # NoneInt}

ConcInbound ==
    { IPTCP(ConcSrv(u), "10.0.0.1", PortHTTP, port, ToLimbs(0),
            Plus(_build_init_seq(m), 1), SYNACK) :
        u \in Threads, port \in ConcPorts, m \in ConcAccepted }

\* line 71, a packet passing the filter, and lines 73-74
T_SniffPacket(t, p) ==
    /\ th[t].pc = "sniff"
    /\ is_synack_reply(p)
    /\ th' = [th EXCEPT ![t] = [@ EXCEPT !.pc = "got_synack", !.pkt = p]]
    /\ UNCHANGED <<_clt, _srv, _curr_port, _seq, _client_socket>>
    /\ UNCHANGED ConcFrame

\* lines 83-85
T_SniffTimeout(t) ==
    /\ th[t].pc = "sniff"
    /\ th' = [th EXCEPT ![t].pc = "close"]
    /\ UNCHANGED <<_clt, _srv, _curr_port, _seq, _client_socket>>
    /\ UNCHANGED ConcFrame

\* lines 77-82 and 115-120
T_SendAck(t) ==
    /\ th[t].pc = "got_synack"
    /\ _seq' = Plus(_seq, 1)
    /\ LET p == ack_pkt(_seq', th[t].pkt)
       IN  th' = [th EXCEPT ![t] =
                    IF Sendable(p)
                    THEN [@ EXCEPT !.sent = p,
                                   !.pc = IF bits_len(th[t].msg) = 0 THEN "close"
                                          ELSE "transmit"]
                    ELSE [@ EXCEPT !.pc = "raised"]]
    /\ UNCHANGED <<_clt, _srv, _curr_port, _client_socket>>
    /\ UNCHANGED ConcFrame

\* lines 120-131
T_SendBit(t) ==
    /\ th[t].pc = "transmit"
    /\ _seq' = next_seq(_seq, th[t].i, bits_seq(th[t].msg, th[t].i))
    /\ LET init_pkt == IPTCP(_clt, _srv, _curr_port, PortHTTP, _seq', ToLimbs(0), PSHACK)
       IN  th' = [th EXCEPT ![t] =
                    IF Sendable(init_pkt)
                    THEN [@ EXCEPT !.sent = init_pkt, !.i = @ + 1,
                                   !.pc = IF th[t].i + 1 = bits_len(th[t].msg)
                                          THEN "close" ELSE "transmit"]
                    ELSE [@ EXCEPT !.pc = "raised"]]
    /\ UNCHANGED <<_clt, _srv, _curr_port, _client_socket>>
    /\ UNCHANGED ConcFrame

\* lines 133-134
T_CloseSocket(t) ==
    /\ th[t].pc = "close"
    /\ _client_socket' = "closed"
    /\ th' = [th EXCEPT ![t].pc = "done"]
    /\ UNCHANGED <<_clt, _srv, _curr_port, _seq>>
    /\ UNCHANGED ConcFrame

ConcNext ==
    \E t \in Threads :
        \/ \E m \in ConcMsgs(t), port \in ConcPorts : T_Enter(t, m, port)
        \/ T_BindOk(t)
        \/ T_BindFail(t)
        \/ T_RejectTooLarge(t)
        \/ T_SendSyn(t)
        \/ \E p \in ConcInbound : T_SniffPacket(t, p)
        \/ T_SniffTimeout(t)
        \/ T_SendAck(t)
        \/ T_SendBit(t)
        \/ T_CloseSocket(t)

ConcSpec == Init /\ [][ConcNext]_vars

(***************************************************************************)
(* C16.  Concurrent send operations share no mutable session state: every  *)
(* packet an invocation sends carries the addresses it was called with and *)
(* the local port it drew, and the SYN-ACK it accepts is addressed to its  *)
(* own port, comes from its own server and acknowledges its own header.    *)
(***************************************************************************)
C16_OwnSessionOnly ==
    \A t \in Threads :
        /\ th[t].sent # NoPkt =>
              /\ th[t].sent.src = th[t].clt_ip
              /\ th[t].sent.dst = th[t].srv_ip
              /\ th[t].sent.sport = th[t].port
        /\ th[t].pkt # NoPkt =>
              /\ th[t].pkt.src = th[t].srv_ip
              /\ th[t].pkt.dport = th[t].port
              /\ th[t].pkt.ack = Plus(_build_init_seq(th[t].msg), 1)

(***************************************************************************)
(* C17.  Once the ACK of the handshake has been sent, the session holds    *)
(* the sequence number the accepted SYN-ACK advertised: self._ack is the   *)
(* seq of that SYN-ACK.                                                    *)
(***************************************************************************)
C17_PeerSeqRecorded == pc = "ack_sent" => _ack = response.seq

(***************************************************************************)
(* C18.  The advances accumulate: with H the sequence number of the SYN,   *)
(* the data packet of bit index i and bit b_i has, as an integer that is   *)
(* not reduced, sequence number 2 * floor((H + 1) / 2) + i * (i + 1) + b_i;*)
(* each data packet after the first has a greater number than the one      *)
(* before it, so the numbers are pairwise distinct.                        *)
(***************************************************************************)
\* x * y as limbs, for 0 <= x < 2^16 and 0 <= y <= 2^16
TimesLimbs(x, y) ==
    LET upper == x * (y \div 256)
    IN  Plus(Limbs(upper \div 256, (upper % 256) * 256), x * (y % 256))

\* a + b, for two integers kept as limbs
AddLimbs(a, b) ==
    Limbs(a.hi + b.hi + ((a.lo + b.lo) \div LIMB), (a.lo + b.lo) % LIMB)

ClosedForm(idx) ==
    Plus(AddLimbs(AndNotOne(Plus(init_seq, 1)), TimesLimbs(idx, idx + 1)),
         bits_seq(msg, idx))

C18_ClosedForm ==
    /\ [](nData > 0 => wire.seq = ClosedForm(nData - 1))
    /\ []((Raised /\ nAck = 1) => _seq = ClosedForm(i))
    /\ [][(nData > 0 /\ nData' = nData + 1) => Less(wire.seq, wire'.seq)]_vars

\* 65408 data packets sent, the last with the closed form's number, and the
\* number of the next one, which is not reduced, has passed 2^32 - 1
C18_Witness ==
    /\ Raised /\ nData = 65408
    /\ wire.seq = ClosedForm(65407)
    /\ _seq = ClosedForm(65408)
    /\ ~FitsUint32(_seq)

(***************************************************************************)
(* C19.  The endpoints are fixed for the whole send operation: the local   *)
(* port is drawn from 49152..65535 when the operation starts, before the   *)
(* socket exists; every packet sent has that port as source port, the      *)
(* caller's addresses as source and destination and the service port as    *)
(* destination port; no later step changes the addresses or the port.      *)
(***************************************************************************)
C19_EndpointsFixed ==
    /\ [](pc # "idle" =>
            /\ _curr_port \in 49152..65535
            /\ _clt \in CltAddrs /\ _srv \in SrvAddrs)
    /\ [](_client_socket # "none" => _curr_port # None)
    /\ [](wire # NoPkt =>
            /\ wire.src = _clt /\ wire.dst = _srv
            /\ wire.sport = _curr_port /\ wire.dport = PortHTTP)
    /\ [][pc # "idle" => UNCHANGED <<_clt, _srv, _curr_port>>]_vars

\* an operation on the highest port randrange gives, after its last data packet
C19_Witness ==
    /\ Returned /\ err = "none" /\ nSyn = 1 /\ nAck = 1 /\ nData = 24
    /\ _curr_port = 65534
    /\ wire.sport = 65534 /\ wire.dport = 80
    /\ wire.src = "10.0.0.1" /\ wire.dst = "10.0.0.2"

====
